---- MODULE Spec2Model ----
(***************************************************************************)
(* A model of the trend-context pipeline:                                  *)
(*   - TrendContext / ITrendSource          (src/src/trend_context.py)     *)
(*   - TrendContextValidator                (src/src/trend_validator.py)   *)
(*   - TrendContextSanitizer     (src/src/trend_validation/sanitizer.py)   *)
(*   - ContentGenerator                  (src/src/content_generation.py)   *)
(* Spec          is the aggregator (TrendContext.update_trends, the trends *)
(*               accessor and ITrendSource.filter_trends);                 *)
(* SpecValidator is TrendContextValidator.validate_trend_context applied   *)
(*               to records drawn from bounded sets, and to its own output;*)
(* SpecSanitizer is sanitize_string applied to bounded strings, and to its *)
(*               own result;                                               *)
(* SpecContextCalls is the sanitizer's validate_trend_context and          *)
(*               extract_keywords applied to bounded contexts;             *)
(* SpecGenerator is ContentGenerator.generate_content for every answer of  *)
(*               its two collaborators.                                    *)
(* Time is counted in whole days relative to the instant of the call.      *)
(***************************************************************************)
EXTENDS Integers, Sequences, FiniteSets, TLC

VARIABLES
    feed,            \* per registered source: what fetch_trends/score_trend answer now
    current_trends,  \* TrendContext._current_trends
    returned,        \* the list the last update_trends call returned
    min_score,       \* the min_score argument of the last update_trends call
    outcome,         \* "none" | "returned" | "raised": how the last update_trends ended
    had_earlier,     \* the cache was non-empty when the last update_trends began
    filter_calls,    \* the filter_trends calls the last update_trends made, in order
    trend_data,      \* argument of validate_trend_context
    validated,       \* what it yielded: the returned dict, or the ValueError
    verdict,         \* "none" | "ok" | "error": how validate_trend_context ended
    revalidated,     \* what validate_trend_context yielded for its own output
    reverdict,       \* "none" | "ok" | "error": how that second call ended
    san_in,          \* argument of sanitize_string
    san_out,         \* sanitize_string(san_in)
    san_again,       \* sanitize_string(san_out)
    san_pc,          \* "none" | "once" | "twice": the sanitize_string calls made
    ctx_call,        \* a call of the sanitizer's validate_trend_context or extract_keywords
    ctx_result,      \* what that call yielded: the returned value, or the exception
    ctx_pc,          \* "none" | "validated" | "extracted": the call made
    gen_call,        \* a call of generate_content with what its collaborators answer
    gen_result,      \* what that call yielded
    gen_pc           \* "none" | "done"

vars == <<feed, current_trends, returned, min_score, outcome, had_earlier,
          filter_calls,
          trend_data, validated, verdict, revalidated, reverdict,
          san_in, san_out, san_again, san_pc,
          ctx_call, ctx_result, ctx_pc,
          gen_call, gen_result, gen_pc>>

aggVars == <<feed, current_trends, returned, min_score, outcome, had_earlier,
             filter_calls>>

valVars == <<trend_data, validated, verdict, revalidated, reverdict>>

sanVars == <<san_in, san_out, san_again, san_pc>>

ctxVars == <<ctx_call, ctx_result, ctx_pc>>

genVars == <<gen_call, gen_result, gen_pc>>

-----------------------------------------------------------------------------
(* Bounds of the model *)

\* number of sources registered with the TrendContext
MaxSources == 2

\* records held by all the sources together at one time
MaxRecords == 3

-----------------------------------------------------------------------------
(* Program constants *)

\* timedelta(days=365): the freshness window of a timestamp
FreshDays == 365

\* the slice [:200] of _validate_topic
TopicLimit == 200

\* validated_sources[:5]
SourcesLimit == 5

-----------------------------------------------------------------------------
(* Generic helpers on sequences *)

Range(s) == {s[i] : i \in 1..Len(s)}

Reverse(s) == [i \in 1..Len(s) |-> s[Len(s) + 1 - i]]

RECURSIVE Flatten(_)
Flatten(ss) == IF ss = <<>> THEN <<>> ELSE Head(ss) \o Flatten(Tail(ss))

-----------------------------------------------------------------------------
(* The sources: ITrendSource implementations seen through their contract *)

SourceIds == 1..MaxSources

\* What a source holds for one trend: the TrendMetadata that fetch_trends
\* returns (its own score field is a placeholder, as in the test double) and
\* what score_trend does for it: raise, or return the number `yields`.
Signals ==
    { [name |-> "Bitcoin",  score |-> 0, timestamp |->  0, additional_info |-> 1000000,
       score_raises |-> FALSE, yields |-> 102],
      [name |-> "Ethereum", score |-> 0, timestamp |-> -1, additional_info |-> 500000,
       score_raises |-> FALSE, yields |-> 50],
      [name |-> "",         score |-> 0, timestamp |->  2, additional_info |-> 0,
       score_raises |-> FALSE, yields |-> -3],
      [name |-> "Solana",   score |-> 0, timestamp |-> -1, additional_info |-> 0,
       score_raises |-> TRUE,  yields |-> 0] }

\* min_score arguments: below the range, inside it, above it
MinScores == {-5, 50, 105}

Working == [fetch_raises |-> FALSE, trends |-> <<>>]

Broken == [fetch_raises |-> TRUE, trends |-> <<>>]

RECURSIVE TotalHeld(_, _)
TotalHeld(f, n) == IF n = 0 THEN 0 ELSE Len(f[n].trends) + TotalHeld(f, n - 1)

NoSignal == CHOOSE x \in Signals : x.score_raises

\* What may change at a source between two update_trends calls
Edits ==
    {[op |-> "publish", signal |-> x] : x \in Signals}
    \cup {[op |-> o, signal |-> NoSignal] : o \in {"fail", "reset", "none"}}

EditEnabled(f, s, e) ==
    e.op = "publish" => (~f[s].fetch_raises /\ TotalHeld(f, MaxSources) < MaxRecords)

Edit(f, s, e) ==
    CASE e.op = "publish" -> [f EXCEPT ![s].trends = Append(@, e.signal)]
      [] e.op = "fail"    -> [f EXCEPT ![s] = Broken]
      [] e.op = "reset"   -> [f EXCEPT ![s] = Working]
      [] OTHER            -> f

-----------------------------------------------------------------------------
(* src/src/trend_context.py *)

\* The dataclass TrendMetadata.  oid stands for the identity of the Python
\* object: update_trends builds one new object per fetched trend, here named
\* by the source and the position it was fetched at.
TrendMetadata(name, score, timestamp, additional_info, oid) ==
    [name |-> name, score |-> score, timestamp |-> timestamp,
     additional_info |-> additional_info, oid |-> oid]

\* A faulty variant of filter_trends: a record scoring exactly min is dropped.
filter_trends_strict(trends_arg, min) ==
    SelectSeq(trends_arg, LAMBDA trend : trend.score > min)

\* ITrendSource.filter_trends
filter_trends(trends_arg, min) ==
    SelectSeq(trends_arg, LAMBDA trend : trend.score >= min)

\* A call source.filter_trends(trends_arg, min) with what it returned
FilterCall(trends_arg, min) ==
    [trends |-> trends_arg, min_score |-> min, result |-> filter_trends(trends_arg, min)]

\* The list comprehension of update_trends: every fetched trend is scored in
\* order; the first score_trend that raises aborts the whole comprehension.
ScoredTrends(s, source_trends) ==
    IF \E i \in 1..Len(source_trends) : source_trends[i].score_raises
    THEN [raised |-> TRUE, value |-> <<>>]
    ELSE [raised |-> FALSE,
          value  |-> [i \in 1..Len(source_trends) |->
                        TrendMetadata(source_trends[i].name,
                                      source_trends[i].yields,
                                      source_trends[i].timestamp,
                                      source_trends[i].additional_info,
                                      <<s, i>>)]]

\* A faulty variant of TrySource: records are appended one by one while they are
\* scored, so those scored before a failure stay in the cache.
TrySourceEager(f, s, min) ==
    IF f[s].fetch_raises
    THEN [raised |-> FALSE, extend |-> <<>>, calls |-> <<>>]
    ELSE LET ts == f[s].trends
             bad == {i \in 1..Len(ts) : ts[i].score_raises}
             upto == IF bad = {} THEN Len(ts)
                     ELSE (CHOOSE i \in bad : \A j \in bad : i <= j) - 1
             scored == ScoredTrends(s, SubSeq(ts, 1, upto))
         IN  [raised |-> FALSE,
              extend |-> filter_trends(scored.value, min),
              calls  |-> <<FilterCall(scored.value, min)>>]

\* One iteration of the loop of update_trends, the try statement:
\* `extend` is what the iteration appends to _current_trends, `raised` says
\* whether an exception leaves the try statement (except Exception catches
\* what fetch_trends and score_trend raise).
TrySource(f, s, min) ==
    IF f[s].fetch_raises
    THEN [raised |-> FALSE, extend |-> <<>>, calls |-> <<>>]
    ELSE LET scored == ScoredTrends(s, f[s].trends)
         IN  IF scored.raised
             THEN [raised |-> FALSE, extend |-> <<>>, calls |-> <<>>]
             ELSE [raised |-> FALSE,
                   extend |-> filter_trends(scored.value, min),
                   calls  |-> <<FilterCall(scored.value, min)>>]

\* A faulty variant of ResetCache: the cache is not cleared.
KeepCache(old) == old

\* self._current_trends = []
ResetCache(old) == <<>>

\* The loop over self._sources, in registration order
Collect(old, f, min) ==
    ResetCache(old) \o Flatten([s \in SourceIds |-> TrySource(f, s, min).extend])

\* list.sort is stable: an element goes after the elements already placed
\* whose key is not greater.
RECURSIVE StableSortAsc(_)
StableSortAsc(s) ==
    IF s = <<>> THEN <<>>
    ELSE LET rest == StableSortAsc(SubSeq(s, 1, Len(s) - 1))
             x == s[Len(s)]
             k == Cardinality({i \in 1..Len(rest) : rest[i].score <= x.score})
         IN  SubSeq(rest, 1, k) \o <<x>> \o SubSeq(rest, k + 1, Len(rest))

\* A faulty variant of SortedByScoreDesc: ascending sort, then reversed,
\* which turns the order of equal keys around.
SortedThenReversed(s) == Reverse(StableSortAsc(s))

\* sorted(..., key=lambda x: x.score, reverse=True): with reverse=True the
\* list is reversed, sorted stably and reversed again, which keeps equal keys
\* in their original order.
SortedByScoreDesc(s) == Reverse(StableSortAsc(Reverse(s)))

\* The property TrendContext.trends
trends == current_trends

\* TrendContext.update_trends(min_score), the whole call.  Between two calls
\* the world moves: one source changes what it answers (edit e of source s).
\* The first conjunct caps the length of the cache; the sources never hold
\* more than MaxRecords records, so it restricts no call of the code.
UpdateTrends ==
    \E s \in SourceIds, e \in Edits, m \in MinScores :
        /\ Len(current_trends) <= MaxRecords
        /\ EditEnabled(feed, s, e)
        /\ LET f == Edit(feed, s, e)
               cache == Collect(current_trends, f, m)
           IN  /\ feed' = f
               /\ had_earlier' = (current_trends # <<>>)
               /\ current_trends' = cache
               /\ returned' = SortedByScoreDesc(cache)
               /\ min_score' = m
               /\ filter_calls' = Flatten([x \in SourceIds |-> TrySource(f, x, m).calls])
               /\ outcome' = IF \E x \in SourceIds : TrySource(f, x, m).raised
                             THEN "raised" ELSE "returned"
        /\ UNCHANGED <<valVars, sanVars, ctxVars, genVars>>

\* TrendContext.__init__ with MaxSources sources
InitContext ==
    /\ feed = [s \in SourceIds |-> Working]
    /\ current_trends = <<>>
    /\ returned = <<>>
    /\ min_score = 0
    /\ outcome = "none"
    /\ had_earlier = FALSE
    /\ filter_calls = <<>>

-----------------------------------------------------------------------------
(* Python values handed to the validator.  A string is the sequence of its  *)
(* characters; a datetime is its distance from now in days; a string in     *)
(* ISO 8601 form is named by the datetime it parses to.                     *)

PyNone == [t |-> "none", v |-> 0]

PyNum(n) == [t |-> "num", v |-> n]

PyStr(chars) == [t |-> "str", v |-> chars]

\* a string that float() parses to n
PyNumStr(n) == [t |-> "numstr", v |-> n]

PyDatetime(d) == [t |-> "datetime", v |-> d]

\* a string that datetime.fromisoformat parses to d
PyIsoStr(d) == [t |-> "isostr", v |-> d]

PyList(items) == [t |-> "list", v |-> items]

\* a string of a sources list: `good` says whether it matches url_pattern once
\* stripped, `padded` whether whitespace surrounds it
PyUrl(id, good, padded) == [t |-> "url", v |-> [id |-> id, good |-> good, padded |-> padded]]

PyDict(d) == [t |-> "dict", v |-> d]

Absent == [t |-> "absent", v |-> 0]

\* dict.get(key, default)
Get(d, key, default) == IF key \in DOMAIN d THEN d[key] ELSE default

Min2(a, b) == IF a <= b THEN a ELSE b

Max2(a, b) == IF a >= b THEN a ELSE b

\* s[:n]
Take(s, n) ==
    IF n >= 0 THEN SubSeq(s, 1, Min2(n, Len(s)))
    ELSE SubSeq(s, 1, Max2(Len(s) + n, 0))

\* n copies of the character c
Repeat(c, n) == [i \in 1..n |-> c]

-----------------------------------------------------------------------------
(* Bounds and inputs of the validator *)

\* longest topic enumerated character by character
MaxTopicLen == 3

Alphabet == {"a", " ", "<", ">"}

Whitespace == {" "}

ShortStrings(n) == UNION {[1..k -> Alphabet] : k \in 0..n}

Keys == {"topic", "relevance_score", "timestamp", "sources"}

\* the dict holding the fields that are not Absent
MakeDict(topic, score, stamp, srcs) ==
    LET full == [topic |-> topic, relevance_score |-> score,
                 timestamp |-> stamp, sources |-> srcs]
    IN  PyDict([k \in {x \in Keys : full[x].t # "absent"} |-> full[k]])

\* topics: no string at all, every short string, and strings around the
\* length limit of _validate_topic
TopicInputs ==
    {Absent, PyNone, PyNum(5)}
    \cup {PyStr(s) : s \in ShortStrings(MaxTopicLen)}
    \cup {PyStr(head \o Repeat("a", n) \o tail) :
            head \in {<<>>, <<"<", "a", ">">>},
            n \in {TopicLimit - 1, TopicLimit}, tail \in ShortStrings(MaxTopicLen - 1)}

ScoreInputs ==
    {Absent, PyNone, PyStr(<<"a">>), PyNumStr(75)}
    \cup {PyNum(n) : n \in {-1, 0, 50, 100, 101, 120}}

TimestampInputs ==
    {Absent, PyStr(<<"a">>), PyIsoStr(-1), PyIsoStr(2)}
    \cup {PyDatetime(d) : d \in {-400, -366, -365, 0, 1}}

SourcesInputs ==
    {Absent, PyNone,
     PyList(<<PyUrl(1, TRUE, TRUE), PyNum(7), PyUrl(2, FALSE, FALSE)>>),
     PyList([i \in 1..6 |-> PyUrl(i, TRUE, FALSE)])}

ValidatorInputs ==
    {PyNone, PyList(<<>>)}
    \cup {MakeDict(a, b, c, d) :
            a \in TopicInputs, b \in ScoreInputs, c \in TimestampInputs, d \in SourcesInputs}

-----------------------------------------------------------------------------
(* src/src/trend_validator.py *)

\* re.sub(r'<[^>]+>', '', topic): the leftmost place where a '<' is followed
\* by one or more characters other than '>' and then by a '>' is removed up
\* to that '>', and the scan goes on after it.
RECURSIVE StripTags(_)
StripTags(s) ==
    LET closes == {j \in 1..Len(s) : s[j] = ">"}
        starts == {i \in 1..Len(s) :
                     /\ s[i] = "<"
                     /\ i + 1 <= Len(s)
                     /\ s[i + 1] # ">"
                     /\ \E j \in closes : j > i + 1}
    IN  IF starts = {} THEN s
        ELSE LET i == CHOOSE x \in starts : \A y \in starts : x <= y
                 after == {j \in closes : j > i}
                 j == CHOOSE x \in after : \A y \in after : x <= y
             IN  SubSeq(s, 1, i - 1) \o StripTags(SubSeq(s, j + 1, Len(s)))

\* str.split(): the maximal runs of characters that are not whitespace
RECURSIVE Split(_)
Split(s) ==
    IF s = <<>> THEN <<>>
    ELSE IF Head(s) \in Whitespace THEN Split(Tail(s))
         ELSE LET gaps == {j \in 1..Len(s) : s[j] \in Whitespace}
                  n == IF gaps = {} THEN Len(s) + 1
                       ELSE CHOOSE x \in gaps : \A y \in gaps : x <= y
              IN  <<SubSeq(s, 1, n - 1)>> \o Split(SubSeq(s, n, Len(s)))

\* ' '.join(words)
RECURSIVE Join(_)
Join(words) ==
    IF words = <<>> THEN <<>>
    ELSE IF Len(words) = 1 THEN words[1]
         ELSE words[1] \o <<" ">> \o Join(Tail(words))

\* What a validation step yields: a value, or a ValueError with its message
Ok(value) == [raised |-> FALSE, value |-> value, error |-> ""]

Raise(message) == [raised |-> TRUE, value |-> PyNone, error |-> message]

\* A faulty variant of validate_topic: tags are left in the topic.
validate_topic_keeps_tags(topic) ==
    IF topic.t # "str" THEN Raise("Topic must be a string")
    ELSE LET sanitized_topic == Take(Join(Split(topic.v)), TopicLimit)
         IN  IF sanitized_topic = <<>>
             THEN Raise("Topic cannot be empty after sanitization")
             ELSE Ok(PyStr(sanitized_topic))

\* TrendContextValidator._validate_topic
validate_topic(topic) ==
    IF topic.t # "str" THEN Raise("Topic must be a string")
    ELSE LET sanitized_topic == Take(Join(Split(StripTags(topic.v))), TopicLimit)
         IN  IF sanitized_topic = <<>>
             THEN Raise("Topic cannot be empty after sanitization")
             ELSE Ok(PyStr(sanitized_topic))

\* TrendContextValidator._validate_relevance_score: float(score) raises
\* TypeError for None, a datetime, a list or a dict and ValueError for a
\* string that is no number
validate_relevance_score(score) ==
    IF score.t \in {"num", "numstr"}
    THEN Ok(PyNum(Max2(0, Min2(100, score.v))))
    ELSE Raise("Relevance score must be a number")

\* A faulty variant of validate_timestamp: a timestamp exactly 365 days old
\* is refused.
validate_timestamp_exclusive(timestamp) ==
    IF timestamp.t = "none" THEN Ok(PyIsoStr(0))
    ELSE IF timestamp.t \notin {"datetime", "isostr"}
         THEN Raise("Invalid timestamp format")
         ELSE IF timestamp.v > 0 \/ timestamp.v <= 0 - FreshDays
              THEN Raise("Invalid timestamp format")
              ELSE Ok(PyIsoStr(timestamp.v))

\* TrendContextValidator._validate_timestamp, at the instant now = 0
validate_timestamp(timestamp) ==
    IF timestamp.t = "none" THEN Ok(PyIsoStr(0))
    ELSE IF timestamp.t \notin {"datetime", "isostr"}
         THEN Raise("Invalid timestamp format")
         ELSE IF timestamp.v > 0 \/ timestamp.v < 0 - FreshDays
              THEN Raise("Invalid timestamp format")
              ELSE Ok(PyIsoStr(timestamp.v))

\* TrendContextValidator._validate_sources
validate_sources(sources) ==
    IF sources.t # "list" THEN Raise("Sources must be a list")
    ELSE LET urls == SelectSeq(sources.v, LAMBDA x : x.t = "url" /\ x.v.good)
             validated_sources ==
                 [i \in 1..Len(urls) |-> PyUrl(urls[i].v.id, TRUE, FALSE)]
         IN  Ok(PyList(Take(validated_sources, SourcesLimit)))

\* TrendContextValidator.validate_trend_context: the fields are validated in
\* the order of the dict display and the first ValueError ends the call.
validate_trend_context(data) ==
    IF data.t # "dict" THEN Raise("Trend data must be a dictionary")
    ELSE LET topic == validate_topic(Get(data.v, "topic", PyStr(<<>>)))
             score == validate_relevance_score(Get(data.v, "relevance_score", PyNum(0)))
             stamp == validate_timestamp(Get(data.v, "timestamp", PyNone))
             srcs  == validate_sources(Get(data.v, "sources", PyList(<<>>)))
         IN  IF topic.raised THEN topic
             ELSE IF score.raised THEN score
             ELSE IF stamp.raised THEN stamp
             ELSE IF srcs.raised THEN srcs
             ELSE Ok(PyDict([topic |-> topic.value,
                             relevance_score |-> score.value,
                             timestamp |-> stamp.value,
                             sources |-> srcs.value]))

-----------------------------------------------------------------------------
(* src/src/trend_validation/sanitizer.py *)
(* Characters beyond those of the validator: "&", "l", "t", ";" spell the   *)
(* entity of '<'; NUL is U+0000, ZWSP is U+200B (not printable), FWLT is    *)
(* U+FF1C (compatibility form of '<'), MUCHLESS is U+226A (what &ll; names). *)

\* longest string handed to sanitize_string character by character
MaxChars == 5

SanAlphabet == {"&", "l", "t", ";", "<", ">", " ", "NUL", "ZWSP", "FWLT"}

\* [\x00-\x1F\x7F]
ControlChars == {"NUL"}

\* characters for which str.isprintable is false
NonPrintable == {"NUL", "ZWSP"}

\* html.unescape: '&' and the run of name characters after it, with a ';'
\* if one follows, is looked up; "lt" and "lt;" name '<', "ll;" names U+226A,
\* and a longer name that begins with "lt" is replaced up to there.  What
\* was replaced is not scanned again.
RECURSIVE Unescape(_)
Unescape(s) ==
    LET amps == {i \in 1..Len(s) : s[i] = "&"}
    IN  IF amps = {} THEN s
        ELSE LET i == CHOOSE x \in amps : \A y \in amps : x <= y
                 at(k) == IF i + k <= Len(s) THEN s[i + k] ELSE ""
                 before == SubSeq(s, 1, i - 1)
                 from(k) == SubSeq(s, i + k, Len(s))
             IN  IF at(1) = "l" /\ at(2) = "t"
                 THEN before \o <<"<">>
                      \o Unescape(IF at(3) = ";" THEN from(4) ELSE from(3))
                 ELSE IF at(1) = "l" /\ at(2) = "l" /\ at(3) = ";"
                      THEN before \o <<"MUCHLESS">> \o Unescape(from(4))
                      ELSE before \o <<"&">> \o Unescape(from(1))

\* re.sub(r'[\x00-\x1F\x7F]', '', value)
RemoveControl(s) == SelectSeq(s, LAMBDA c : c \notin ControlChars)

\* unicodedata.normalize('NFKD', value)
Normalize(s) == [i \in 1..Len(s) |-> IF s[i] = "FWLT" THEN "<" ELSE s[i]]

\* ''.join(char for char in value if char.isprintable())
KeepPrintable(s) == SelectSeq(s, LAMBDA c : c \notin NonPrintable)

\* str.strip()
Strip(s) ==
    LET solid == {i \in 1..Len(s) : s[i] \notin Whitespace}
    IN  IF solid = {} THEN <<>>
        ELSE SubSeq(s, CHOOSE x \in solid : \A y \in solid : x <= y,
                       CHOOSE x \in solid : \A y \in solid : x >= y)

\* TrendContextSanitizer.sanitize_string
sanitize_string(value) ==
    IF value.t # "str" THEN PyStr(<<>>)
    ELSE PyStr(Strip(KeepPrintable(Normalize(RemoveControl(Unescape(StripTags(value.v)))))))

SanitizeInputs ==
    {PyNone, PyNum(5), PyList(<<>>)}
    \cup {PyStr(s) : s \in UNION {[1..k -> SanAlphabet] : k \in 0..MaxChars}}

\* longest 'keywords' list of a context
MaxItems == 2

\* largest max_keywords below the default
MaxKeywords == 2

\* max_keywords: int = 10
DefaultMaxKeywords == 10

Digits == <<"0", "1", "2", "3", "4", "5", "6", "7", "8", "9">>

RECURSIVE Decimal(_)
Decimal(n) ==
    IF n < 0 THEN <<"-">> \o Decimal(0 - n)
    ELSE IF n < 10 THEN <<Digits[n + 1]>>
         ELSE Decimal(n \div 10) \o <<Digits[(n % 10) + 1]>>

\* str(value), for the values that reach it
str(value) ==
    CASE value.t = "str" -> value.v
      [] value.t = "num" -> Decimal(value.v)
      [] value.t = "none" -> <<"N", "o", "n", "e">>

\* bool(value)
Truthy(value) ==
    CASE value.t = "str" -> value.v # <<>>
      [] value.t = "num" -> value.v # 0
      [] value.t = "list" -> value.v # <<>>
      [] OTHER -> FALSE

\* str.lower()
Lower(s) ==
    LET small == [c \in {"A", "N"} |-> IF c = "A" THEN "a" ELSE "n"]
    IN  [i \in 1..Len(s) |-> IF s[i] \in DOMAIN small THEN small[s[i]] ELSE s[i]]

\* A faulty variant of allowed_keys: 'id' is let through.
allowed_keys_open == {"name", "volume", "sentiment", "keywords", "description", "id"}

allowed_keys == {"name", "volume", "sentiment", "keywords", "description"}

\* TrendContextSanitizer.validate_trend_context
sanitizer_validate_trend_context(trend_context) ==
    IF trend_context.t # "dict" THEN PyDict([k \in {} |-> PyNone])
    ELSE LET item_kept(item) == item.t # "none"
             item_clean(item) == sanitize_string(PyStr(str(item)))
             clean(value) ==
                 CASE value.t = "str" -> sanitize_string(value)
                   [] value.t = "num" -> value
                   [] value.t = "list" ->
                          LET items == SelectSeq(value.v, item_kept)
                          IN  PyList([i \in 1..Len(items) |-> item_clean(items[i])])
                   [] OTHER -> PyStr(str(value))
         IN  PyDict([key \in {k \in DOMAIN trend_context.v : k \in allowed_keys}
                        |-> clean(trend_context.v[key])])

\* A faulty variant of Unique: repeated entries are kept.
UniqueKeepsAll(s) == s

\* list(dict.fromkeys(s))
Unique(s) ==
    LET first == {i \in 1..Len(s) : \A j \in 1..(i - 1) : s[j] # s[i]}
        rank(i) == Cardinality({j \in first : j <= i})
    IN  [k \in 1..Cardinality(first) |-> s[CHOOSE i \in first : rank(i) = k]]

\* the words of a string, as Python strings
Words(value) == [i \in 1..Len(Split(value.v)) |-> PyStr(Split(value.v)[i])]

\* TrendContextSanitizer.extract_keywords; .split() of a value that is not a
\* string raises AttributeError, iterating a value that is neither a string
\* nor a list raises TypeError
extract_keywords(context, max_keywords) ==
    IF context.t # "dict" \/ max_keywords <= 0 THEN Ok(PyList(<<>>))
    ELSE LET given == Get(context.v, "keywords", PyList(<<>>))
             name == Get(context.v, "name", PyStr(<<>>))
             description == Get(context.v, "description", PyStr(<<>>))
         IN  IF name.t # "str" \/ description.t # "str"
             THEN Raise("AttributeError")
             ELSE IF given.t \notin {"str", "list"}
                  THEN Raise("TypeError")
                  ELSE LET keyword_sources ==
                               <<IF given.t = "str" THEN Words(given) ELSE given.v,
                                 Words(name), Words(description)>>
                           kw_kept(kw) ==
                               /\ Truthy(kw)
                               /\ Len(sanitize_string(PyStr(str(kw))).v) > 1
                           kw_clean(kw) ==
                               PyStr(Lower(sanitize_string(PyStr(str(kw))).v))
                           extension(source) ==
                               LET kws == SelectSeq(source, kw_kept)
                               IN  [i \in 1..Len(kws) |-> kw_clean(kws[i])]
                           keywords ==
                               Flatten([i \in 1..3 |-> extension(keyword_sources[i])])
                       IN  Ok(PyList(Take(Unique(keywords), max_keywords)))

\* Strings of the contexts; ScriptItem is <s>hk</s>, an element whose text
\* occurs in no other string
Word_ab == <<"a", "b">>

Word_Ab == <<"A", "b">>

Word_a == <<"a">>

ScriptText == <<"h", "k">>

ScriptItem == <<"<", "s", ">">> \o ScriptText \o <<"<", "/", "s", ">">>

KeywordItems ==
    {PyStr(Word_ab), PyStr(Word_Ab), PyStr(Word_a), PyStr(ScriptItem),
     PyStr(<<>>), PyNone, PyNum(0), PyNum(42)}

KeywordsInputs ==
    {Absent, PyNone, PyNum(5), PyStr(Word_ab \o <<" ">> \o <<"c", "d">>)}
    \cup {PyList(s) : s \in UNION {[1..k -> KeywordItems] : k \in 0..MaxItems}}

NameInputs ==
    {Absent, PyNum(123), PyStr(<<>>),
     PyStr(<<" ">> \o Word_Ab \o <<" ", " ", "e", "f", " ">>)}

DescriptionInputs ==
    {Absent, PyNone, PyStr(<<"e", "f", " ", "&", "l", "t", ";", "g", " ">> \o Word_a)}

VolumeInputs == {Absent, PyNum(1000)}

IdInputs == {Absent, PyStr(Word_ab)}

ContextKeys == {"keywords", "name", "description", "volume", "id"}

\* the dict holding the fields that are not Absent
MakeContext(keywords, name, description, volume, id) ==
    LET full == [keywords |-> keywords, name |-> name,
                 description |-> description, volume |-> volume, id |-> id]
    IN  PyDict([k \in {x \in ContextKeys : full[x].t # "absent"} |-> full[k]])

ContextInputs ==
    {PyNone, PyStr(Word_ab), PyList(<<PyStr(Word_ab)>>)}
    \cup {MakeContext(k, n, d, v, i) :
            k \in KeywordsInputs, n \in NameInputs, d \in DescriptionInputs,
            v \in VolumeInputs, i \in IdInputs}

MaxKeywordsInputs == (-1..MaxKeywords) \cup {DefaultMaxKeywords}

-----------------------------------------------------------------------------
(* src/src/content_generation.py *)
(* The text generate_content returns is a sequence of fragments: the fixed  *)
(* phrases of the code, the keywords of the trends and digits.  "LF" is a   *)
(* line feed.                                                               *)

\* longest list of trend contexts the processor answers with
MaxProcessed == 4

\* max_trends: int = 3
DefaultMaxTrends == 3

TrendKeywords == {"Bitcoin", "Ethereum"}

\* What trend_sourcer.get_google_trends followed by
\* trend_processor.process_trend_data comes to inside the try block: one of
\* them raises, or the processor returns a list of trend contexts
CollaboratorAnswers ==
    {Raise("sourcing"), Raise("processing")}
    \cup {Ok(PyList(s)) :
            s \in UNION {[1..k -> [keyword : TrendKeywords]] : k \in 0..MaxProcessed}}

ContentTypes == {"article", "summary", "thread"}

MaxTrendsInputs == -1..DefaultMaxTrends

NoTrendingTopics == "No trending topics available for content generation."

\* ', '.join(names)
RECURSIVE CommaJoin(_)
CommaJoin(names) ==
    IF names = <<>> THEN <<>>
    ELSE IF Len(names) = 1 THEN <<names[1]>>
         ELSE <<names[1], ", ">> \o CommaJoin(Tail(names))

\* ContentGenerator._generate_content_from_trends
generate_content_from_trends(top_trends, content_type) ==
    IF top_trends = <<>> THEN <<NoTrendingTopics>>
    ELSE LET trend_keywords == [i \in 1..Len(top_trends) |-> top_trends[i].keyword]
             base_content == <<"Exploring top crypto trends: ">> \o CommaJoin(trend_keywords)
         IN  IF content_type = "article"
             THEN base_content
                  \o <<"LF", "LF", "Full article generation requires advanced NLP processing.">>
             ELSE IF content_type = "summary"
                  THEN <<"Summary of ">> \o Decimal(Len(trend_keywords))
                       \o <<" top crypto trends.">>
                  ELSE base_content

\* ContentGenerator.generate_content, given what its collaborators answer;
\* an exception in the try block is logged and answered with empty fields
generate_content(answer, content_type, max_trends) ==
    IF answer.raised
    THEN PyDict([content |-> PyStr(<<>>), trends_used |-> PyList(<<>>)])
    ELSE LET trend_contexts == answer.value.v
             top_trends == Take(trend_contexts, max_trends)
             content == generate_content_from_trends(top_trends, content_type)
         IN  PyDict([content |-> PyStr(content),
                     trends_used |-> PyList([i \in 1..Len(top_trends) |->
                                                PyStr(<<top_trends[i].keyword>>)])])

-----------------------------------------------------------------------------
(* Specifications *)

IdleSanitizer ==
    /\ san_in = PyNone
    /\ san_out = PyNone
    /\ san_again = PyNone
    /\ san_pc = "none"

IdleContextCalls ==
    /\ ctx_call = [context |-> PyNone, max_keywords |-> 0]
    /\ ctx_result = Raise("")
    /\ ctx_pc = "none"

IdleGenerator ==
    /\ gen_call = [answer |-> Raise(""), content_type |-> "article",
                   max_trends |-> DefaultMaxTrends]
    /\ gen_result = Raise("")
    /\ gen_pc = "none"

IdleValidator ==
    /\ trend_data = PyNone
    /\ validated = Raise("")
    /\ verdict = "none"
    /\ revalidated = Raise("")
    /\ reverdict = "none"

Init ==
    /\ InitContext
    /\ IdleValidator
    /\ IdleSanitizer
    /\ IdleContextCalls
    /\ IdleGenerator

\* A call validate_trend_context(trend_data)
Validate ==
    /\ verdict = "none"
    /\ LET r == validate_trend_context(trend_data)
       IN  /\ verdict' = IF r.raised THEN "error" ELSE "ok"
           /\ validated' = r
    /\ UNCHANGED <<trend_data, revalidated, reverdict>>
    /\ UNCHANGED <<aggVars, sanVars, ctxVars, genVars>>

\* A second call at the same instant, validate_trend_context(validated), on
\* the dict the first call returned
Revalidate ==
    /\ verdict = "ok"
    /\ reverdict = "none"
    /\ LET r == validate_trend_context(validated.value)
       IN  /\ reverdict' = IF r.raised THEN "error" ELSE "ok"
           /\ revalidated' = r
    /\ UNCHANGED <<trend_data, validated, verdict>>
    /\ UNCHANGED <<aggVars, sanVars, ctxVars, genVars>>

InitValidator ==
    /\ InitContext
    /\ trend_data \in ValidatorInputs
    /\ validated = Raise("")
    /\ verdict = "none"
    /\ revalidated = Raise("")
    /\ reverdict = "none"
    /\ IdleSanitizer
    /\ IdleContextCalls
    /\ IdleGenerator

NextValidator == Validate \/ Revalidate

SpecValidator == InitValidator /\ [][NextValidator]_vars

\* A call sanitize_string(san_in)
SanitizeString ==
    /\ san_pc = "none"
    /\ san_out' = sanitize_string(san_in)
    /\ san_pc' = "once"
    /\ UNCHANGED <<san_in, san_again>>
    /\ UNCHANGED <<aggVars, valVars, ctxVars, genVars>>

\* A call sanitize_string(san_out), on what the first call returned
SanitizeAgain ==
    /\ san_pc = "once"
    /\ san_again' = sanitize_string(san_out)
    /\ san_pc' = "twice"
    /\ UNCHANGED <<san_in, san_out>>
    /\ UNCHANGED <<aggVars, valVars, ctxVars, genVars>>

InitSanitizer ==
    /\ InitContext
    /\ IdleValidator
    /\ san_in \in SanitizeInputs
    /\ san_out = PyNone
    /\ san_again = PyNone
    /\ san_pc = "none"
    /\ IdleContextCalls
    /\ IdleGenerator

NextSanitizer == SanitizeString \/ SanitizeAgain

SpecSanitizer == InitSanitizer /\ [][NextSanitizer]_vars

\* A call TrendContextSanitizer.validate_trend_context(context)
ValidateContext ==
    /\ ctx_pc = "none"
    /\ ctx_result' = Ok(sanitizer_validate_trend_context(ctx_call.context))
    /\ ctx_pc' = "validated"
    /\ UNCHANGED ctx_call
    /\ UNCHANGED <<aggVars, valVars, sanVars, genVars>>

\* A call TrendContextSanitizer.extract_keywords(context, max_keywords)
ExtractKeywords ==
    /\ ctx_pc = "none"
    /\ ctx_result' = extract_keywords(ctx_call.context, ctx_call.max_keywords)
    /\ ctx_pc' = "extracted"
    /\ UNCHANGED ctx_call
    /\ UNCHANGED <<aggVars, valVars, sanVars, genVars>>

InitContextCalls ==
    /\ InitContext
    /\ IdleValidator
    /\ IdleSanitizer
    /\ ctx_call \in [context : ContextInputs, max_keywords : MaxKeywordsInputs]
    /\ ctx_result = Raise("")
    /\ ctx_pc = "none"
    /\ IdleGenerator

NextContextCalls == ValidateContext \/ ExtractKeywords

SpecContextCalls == InitContextCalls /\ [][NextContextCalls]_vars

\* A call generate_content(keywords, content_type, max_trends)
GenerateContent ==
    /\ gen_pc = "none"
    /\ gen_result' = Ok(generate_content(gen_call.answer, gen_call.content_type,
                                         gen_call.max_trends))
    /\ gen_pc' = "done"
    /\ UNCHANGED gen_call
    /\ UNCHANGED <<aggVars, valVars, sanVars, ctxVars>>

InitGenerator ==
    /\ InitContext
    /\ IdleValidator
    /\ IdleSanitizer
    /\ IdleContextCalls
    /\ gen_call \in [answer : CollaboratorAnswers, content_type : ContentTypes,
                     max_trends : MaxTrendsInputs]
    /\ gen_result = Raise("")
    /\ gen_pc = "none"

NextGenerator == GenerateContent

SpecGenerator == InitGenerator /\ [][NextGenerator]_vars

Next == UpdateTrends

Spec == Init /\ [][Next]_vars

-----------------------------------------------------------------------------
(* Properties of the aggregator, checked under Spec *)

\* A source raises when fetch_trends raises or score_trend raises for one of
\* the trends it fetched.
SourceRaises(s) ==
    \/ feed[s].fetch_raises
    \/ \E i \in 1..Len(feed[s].trends) : feed[s].trends[i].score_raises

\* The trends of the last call that were fetched from a source that did not
\* raise and whose score_trend value meets min_score, named by source and position.
Expected ==
    {<<s, i>> \in SourceIds \X (1..MaxRecords) :
        /\ ~SourceRaises(s)
        /\ i <= Len(feed[s].trends)
        /\ feed[s].trends[i].yields >= min_score}

Oids(seq) == {seq[i].oid : i \in 1..Len(seq)}

\* The record is the scored copy of the trend it was built from.
ScoredCopy(r) ==
    LET g == feed[r.oid[1]].trends[r.oid[2]]
    IN  /\ r.name = g.name
        /\ r.score = g.yields
        /\ r.timestamp = g.timestamp
        /\ r.additional_info = g.additional_info

\* Collection order: sources in registration order, then fetch order.
Precedes(a, b) == a[1] < b[1] \/ (a[1] = b[1] /\ a[2] < b[2])

\* C1: update_trends never raises, whatever sources raise from fetch_trends
\* or score_trend; a raising source contributes nothing (not even what it
\* scored before the failure) and the result holds exactly the scored records
\* of the other sources that meet min_score; it is empty when all sources raise.
C1_FailureIsolation ==
    outcome # "none" =>
        /\ outcome = "returned"
        /\ Oids(returned) = Expected
        /\ Len(returned) = Cardinality(Expected)
        /\ \A i \in 1..Len(returned) : ScoredCopy(returned[i])
        /\ (\A s \in SourceIds : SourceRaises(s)) => returned = <<>>

\* One source raised in score_trend after scoring a record that meets
\* min_score, and another source contributed.
C1_Witness ==
    /\ outcome = "returned"
    /\ returned # <<>>
    /\ \E s \in SourceIds :
          /\ ~feed[s].fetch_raises
          /\ \E i, j \in 1..Len(feed[s].trends) :
                /\ i < j
                /\ ~feed[s].trends[i].score_raises
                /\ feed[s].trends[i].yields >= min_score
                /\ feed[s].trends[j].score_raises

\* C2: the returned list is sorted by score, descending, and records of equal
\* score keep the order in which they were collected.
C2_SortedStable ==
    outcome = "returned" =>
        \A i, j \in 1..Len(returned) :
            i < j =>
                \/ returned[i].score > returned[j].score
                \/ /\ returned[i].score = returned[j].score
                   /\ Precedes(returned[i].oid, returned[j].oid)

\* The sort had to move a record, and two records tie.
C2_Witness ==
    /\ outcome = "returned"
    /\ returned # current_trends
    /\ \E i, j \in 1..Len(returned) :
          i < j /\ returned[i].score = returned[j].score

\* C3: after any sequence of calls the cache read through the trends accessor
\* holds only the records of the most recent call.
C3_CacheRebuilt ==
    outcome = "returned" =>
        /\ Oids(trends) = Expected
        /\ Len(trends) = Cardinality(Expected)
        /\ \A i \in 1..Len(trends) : ScoredCopy(trends[i])

\* A call that found a non-empty cache and collected records itself.
C3_Witness ==
    /\ outcome = "returned"
    /\ had_earlier
    /\ trends # <<>>

\* C4: right after update_trends returned R, the trends accessor equals R.
C4_TrendsEqualsReturned ==
    outcome = "returned" => trends = returned

\* C5: every record of the result and of the cache has a score in [0, 100].
C5_ScoresClamped ==
    \A r \in Range(returned) \cup Range(trends) : 0 <= r.score /\ r.score <= 100

\* C6: every returned record has a non-empty name and a timestamp inside
\* the freshness window [now - 365 days, now].
C6_OnlyValidRecords ==
    \A r \in Range(returned) :
        /\ r.name # ""
        /\ 0 - FreshDays <= r.timestamp
        /\ r.timestamp <= 0

Position(seq, r) == CHOOSE i \in 1..Len(seq) : seq[i] = r

\* C7: filter_trends returns the records of its input whose score is at
\* least min_score, all of them, unchanged and in the order of the input,
\* for any min_score; update_trends(min_score) returns only such records.
C7_FilterSubsequence ==
    /\ \A k \in 1..Len(filter_calls) :
          LET c == filter_calls[k]
              kept == {r \in Range(c.trends) : r.score >= c.min_score}
          IN  /\ Range(c.result) = kept
              /\ Len(c.result) = Cardinality(kept)
              /\ \A i, j \in 1..Len(c.result) :
                    i < j => Position(c.trends, c.result[i]) < Position(c.trends, c.result[j])
    /\ outcome = "returned" => \A r \in Range(returned) : r.score >= min_score

\* A min_score below 0 kept a record with a negative score and dropped nothing
\* it should keep; a record scoring exactly min_score is the boundary case.
C7_Witness ==
    \E k \in 1..Len(filter_calls) :
        /\ filter_calls[k].min_score < 0
        /\ \E r \in Range(filter_calls[k].result) : r.score < 0
        /\ Len(filter_calls[k].trends) > 1

-----------------------------------------------------------------------------
(* Properties of the validator, checked under SpecValidator *)

IsDict == trend_data.t = "dict"

Has(key) == IsDict /\ key \in DOMAIN trend_data.v

\* float() accepts the value
Coercible(x) == x.t \in {"num", "numstr"}

\* the topic once its tags are stripped and its whitespace is collapsed
CleanTopic == Join(Split(StripTags(trend_data.v["topic"].v)))

\* C8: validate_trend_context fails for every relevance_score that is no
\* number or lies outside [0, 100]; an accepted score is returned as given,
\* never clamped.
C8_ScoreOutOfRangeRejected ==
    (verdict # "none" /\ Has("relevance_score")) =>
        LET score == trend_data.v["relevance_score"]
        IN  /\ (~Coercible(score) \/ score.v < 0 \/ score.v > 100) => verdict = "error"
            /\ verdict = "ok" => validated.value.v["relevance_score"].v = score.v

\* C9: validate_trend_context fails when the input is no mapping or lacks
\* 'topic' or 'relevance_score'.
C9_MissingFieldRejected ==
    (verdict # "none" /\ (~Has("topic") \/ ~Has("relevance_score"))) =>
        verdict = "error"

\* C10: validate_trend_context fails when the sanitized topic is empty or
\* longer than 200 characters; it does not shorten the topic.
C10_LongTopicRejected ==
    (verdict # "none" /\ Has("topic") /\ trend_data.v["topic"].t = "str") =>
        /\ (CleanTopic = <<>> \/ Len(CleanTopic) > TopicLimit) => verdict = "error"
        /\ verdict = "ok" => validated.value.v["topic"].v = CleanTopic

\* the timestamp of the input parses: it is a datetime or an ISO 8601 string
Parses(x) == x.t \in {"datetime", "isostr"}

\* the timestamp of the input lies in [now - 365 days, now]
Fresh(x) == 0 - FreshDays <= x.v /\ x.v <= 0

HasTag(s) ==
    \E i \in 1..Len(s) :
        /\ s[i] = "<"
        /\ \E j \in (i + 2)..Len(s) :
              /\ s[j] = ">"
              /\ \A k \in (i + 1)..(j - 1) : s[k] # ">"

\* no tag, no leading, trailing or doubled whitespace, 1 to 200 characters
IsCleanTopic(s) ==
    /\ Len(s) >= 1
    /\ Len(s) <= TopicLimit
    /\ ~HasTag(s)
    /\ s[1] \notin Whitespace
    /\ s[Len(s)] \notin Whitespace
    /\ \A i \in 1..(Len(s) - 1) : ~(s[i] \in Whitespace /\ s[i + 1] \in Whitespace)

\* C18: the topic of an accepted record is non-empty, at most 200 characters
\* long and free of tags; a topic that is already clean comes back unchanged,
\* and so does a relevance_score in [0, 100].
C18_TopicOutput ==
    verdict = "ok" =>
        LET out == validated.value.v
            topic == trend_data.v["topic"].v
        IN  /\ out["topic"].t = "str"
            /\ Len(out["topic"].v) >= 1
            /\ Len(out["topic"].v) <= TopicLimit
            /\ ~HasTag(out["topic"].v)
            /\ IsCleanTopic(topic) =>
                  /\ out["topic"].v = topic
                  /\ (Has("relevance_score")
                      /\ trend_data.v["relevance_score"].t = "num"
                      /\ trend_data.v["relevance_score"].v \in 0..100) =>
                        out["relevance_score"] = trend_data.v["relevance_score"]

\* An accepted record whose topic carried a tag, and was too long as well.
C18_Witness ==
    /\ verdict = "ok"
    /\ HasTag(trend_data.v["topic"].v)
    /\ Len(trend_data.v["topic"].v) > TopicLimit

\* C12: validating the output of an accepted record again, at the same
\* instant, succeeds and returns the same result.
C12_RevalidationStable ==
    reverdict # "none" => (reverdict = "ok" /\ revalidated = validated)

-----------------------------------------------------------------------------
(* Properties of the sanitizer, checked under SpecSanitizer *)

\* C13: sanitize_string is idempotent: sanitizing its own result returns
\* that result.
C13_SanitizeIdempotent ==
    san_pc = "twice" => san_again = san_out

-----------------------------------------------------------------------------
(* Properties of the context operations, checked under SpecContextCalls *)

\* the keywords extract_keywords meets, cleaned, in the order it meets them:
\* the 'keywords' value, then the words of 'name', then of 'description'
Candidates(context) ==
    LET given == Get(context.v, "keywords", PyList(<<>>))
        met == (IF given.t = "str" THEN Words(given) ELSE given.v)
               \o Words(Get(context.v, "name", PyStr(<<>>)))
               \o Words(Get(context.v, "description", PyStr(<<>>)))
        cleaned(kw) == sanitize_string(PyStr(str(kw))).v
        taken == SelectSeq(met, LAMBDA kw : Truthy(kw) /\ Len(cleaned(kw)) > 1)
    IN  [i \in 1..Len(taken) |-> PyStr(Lower(cleaned(taken[i])))]

FirstSeen(c, cand) ==
    CHOOSE i \in 1..Len(cand) : cand[i] = c /\ \A j \in 1..(i - 1) : cand[j] # c

\* C14: whenever extract_keywords returns, its result has at most
\* max_keywords entries (none when max_keywords <= 0 or the input is not a
\* mapping), no duplicates and no entry of length <= 1, and it is the first
\* distinct candidates in the order in which keywords, name and description
\* present them.
C14_ExtractKeywords ==
    (ctx_pc = "extracted" /\ ~ctx_result.raised) =>
        LET result == ctx_result.value.v
            limit == ctx_call.max_keywords
            context == ctx_call.context
        IN  /\ ctx_result.value.t = "list"
            /\ Len(result) <= Max2(limit, 0)
            /\ \A i, j \in 1..Len(result) : i # j => result[i] # result[j]
            /\ \A i \in 1..Len(result) : result[i].t = "str" /\ Len(result[i].v) > 1
            /\ (limit <= 0 \/ context.t # "dict") => result = <<>>
            /\ (limit > 0 /\ context.t = "dict") =>
                   LET cand == Candidates(context)
                   IN  /\ Range(result) \subseteq Range(cand)
                       /\ \A i, j \in 1..Len(result) :
                              i < j => FirstSeen(result[i], cand) < FirstSeen(result[j], cand)
                       /\ \A c \in Range(cand) \ Range(result) :
                              /\ Len(result) = limit
                              /\ \A i \in 1..Len(result) :
                                     FirstSeen(result[i], cand) < FirstSeen(c, cand)

\* extract_keywords returned max_keywords entries out of more candidates,
\* some of them repeated and some items too short to count
C14_Witness ==
    /\ ctx_pc = "extracted"
    /\ ~ctx_result.raised
    /\ ctx_call.context.t = "dict"
    /\ ctx_call.max_keywords = 2
    /\ Len(ctx_result.value.v) = 2
    /\ LET cand == Candidates(ctx_call.context)
       IN  /\ Len(cand) > Cardinality(Range(cand))
           /\ Cardinality(Range(cand)) > 2
    /\ "keywords" \in DOMAIN ctx_call.context.v
    /\ ctx_call.context.v.keywords.t = "list"
    /\ PyStr(Word_a) \in Range(ctx_call.context.v.keywords.v)

\* C15: sanitization never raises: sanitize_string gives "" for what is not
\* a string, validate_trend_context gives {} for what is not a mapping, and
\* extract_keywords returns for every mapping whatever its values are.
C15_NeverRaises ==
    /\ (san_pc = "once" /\ san_in.t # "str") => san_out = PyStr(<<>>)
    /\ (ctx_pc = "validated" /\ ctx_call.context.t # "dict") =>
           ctx_result = Ok(PyDict(<<>>))
    /\ (ctx_pc = "extracted" /\ ctx_call.context.t = "dict") => ~ctx_result.raised

\* C16: the keys validate_trend_context returns are exactly the keys of the
\* input that are among name, volume, sentiment, keywords, description, and
\* a number under such a key is returned as it was given.
C16_FieldWhitelisting ==
    (ctx_pc = "validated" /\ ctx_call.context.t = "dict") =>
        LET given == ctx_call.context.v
            kept == ctx_result.value.v
        IN  /\ ~ctx_result.raised
            /\ ctx_result.value.t = "dict"
            /\ DOMAIN kept = DOMAIN given
                   \cap {"name", "volume", "sentiment", "keywords", "description"}
            /\ \A k \in DOMAIN kept : given[k].t = "num" => kept[k] = given[k]

\* a context with an 'id', a numeric 'volume' and a 'name' was validated
C16_Witness ==
    /\ ctx_pc = "validated"
    /\ ctx_call.context.t = "dict"
    /\ {"id", "volume", "name"} \subseteq DOMAIN ctx_call.context.v
    /\ ctx_call.context.v.volume.t = "num"
    /\ ~ctx_result.raised
    /\ "name" \in DOMAIN ctx_result.value.v
    /\ "id" \notin DOMAIN ctx_result.value.v

\* C17: a script element among the keywords leaves nothing behind: its text
\* is neither in the list validate_trend_context returns nor among the
\* keywords extract_keywords returns.
C17_ScriptItemDropped ==
    LET context == ctx_call.context
        scripted == /\ context.t = "dict"
                    /\ "keywords" \in DOMAIN context.v
                    /\ context.v.keywords.t = "list"
                    /\ PyStr(ScriptItem) \in Range(context.v.keywords.v)
    IN  scripted =>
            /\ ctx_pc = "validated" =>
                   PyStr(ScriptText) \notin Range(ctx_result.value.v.keywords.v)
            /\ (ctx_pc = "extracted" /\ ~ctx_result.raised) =>
                   PyStr(ScriptText) \notin Range(ctx_result.value.v)

-----------------------------------------------------------------------------
(* Properties of the content generator, checked under SpecGenerator *)

\* C19: generate_content never raises and returns a mapping with the keys
\* content and trends_used; the trends it uses are at most max_trends, taken
\* in order from the front of the processed list; and when it uses none,
\* whether none was found or sourcing or processing failed, the content is
\* the 'No trending topics' placeholder.
C19_GenerateContent ==
    gen_pc = "done" =>
        /\ ~gen_result.raised
        /\ gen_result.value.t = "dict"
        /\ DOMAIN gen_result.value.v = {"content", "trends_used"}
        /\ LET used == gen_result.value.v.trends_used.v
               content == gen_result.value.v.content
           IN  /\ Len(used) <= Max2(gen_call.max_trends, 0)
               /\ ~gen_call.answer.raised =>
                      LET processed == gen_call.answer.value.v
                      IN  /\ Len(used) <= Len(processed)
                          /\ \A i \in 1..Len(used) :
                                 used[i] = PyStr(<<processed[i].keyword>>)
               /\ used = <<>> => content = PyStr(<<NoTrendingTopics>>)

====
